---- MODULE Spec2Model ----
(***************************************************************************)
(* Model of generate_map.py: the classifier, the spreadsheet row filter,   *)
(* the geocoding loop with its file-backed cache, and the hand-off of the  *)
(* resulting Listings to the HTML and KML writers.                         *)
(*                                                                         *)
(* A Python str is a sequence of one-character strings, so that strip,     *)
(* lower and the substring test are computed character by character.       *)
(***************************************************************************)
EXTENDS Integers, Sequences, FiniteSets, TLC

VARIABLES
    \* ---- classifier, called on its own
    type_str,       \* the argument of classify
    category,       \* its result, "none" before the call
    cpc,            \* "idle" | "input" | "classified" | "reclassified"
    \* ---- one run of main() after the other
    pc,             \* the statement main() is at
    data_rows,      \* the sheet as this run finds it: all_rows[1:]
    image_urls,     \* and what get_image_formulas(...) returns for it, {index: url}
    restaurants,    \* the list of Listing dicts
    cache,          \* geocode_restaurants: the in-memory dict
    cache_file,     \* geocode_cache.json on disk
    idx,            \* position of the for loop in restaurants (1-based)
    calls,          \* the geocoder's log of this run: one entry per geocode(addr)
    html_markers,   \* what this run's generate_html was given ("unwritten" before)
    kml_folders,    \* the folders this run's generate_kml wrote ("unwritten" before)
    prev_resolved,  \* address/lat/lng triples the last run that saved the cache assigned
    prev_unresolved \* the addresses that run called the geocoder for and left unresolved

cvars == <<type_str, category, cpc>>
pvars == <<pc, data_rows, image_urls, restaurants, cache, cache_file, idx, calls,
           html_markers, kml_folders, prev_resolved, prev_unresolved>>
vars == <<type_str, category, cpc, pc, data_rows, image_urls, restaurants, cache,
          cache_file, idx, calls, html_markers, kml_folders, prev_resolved,
          prev_unresolved>>

(***************************************************************************)
(* Bounds                                                                  *)
(***************************************************************************)
\* fragments concatenated into one classify argument
MaxFrags == 2
\* data rows of the sheet in one run
MaxRows == 2

(***************************************************************************)
(* Python str operations                                                   *)
(***************************************************************************)
EMPTY == << >>

UpperChars == <<"A", "B", "C", "D", "E", "F", "G", "H", "I", "J", "K", "L", "M",
                "N", "O", "P", "Q", "R", "S", "T", "U", "V", "W", "X", "Y", "Z">>
LowerChars == <<"a", "b", "c", "d", "e", "f", "g", "h", "i", "j", "k", "l", "m",
                "n", "o", "p", "q", "r", "s", "t", "u", "v", "w", "x", "y", "z">>
Whitespace == {" ", "\t", "\n"}

LowerChar(c) ==
    IF \E i \in 1..Len(UpperChars) : UpperChars[i] = c
    THEN LowerChars[CHOOSE i \in 1..Len(UpperChars) : UpperChars[i] = c]
    ELSE c

UpperChar(c) ==
    IF \E i \in 1..Len(LowerChars) : LowerChars[i] = c
    THEN UpperChars[CHOOSE i \in 1..Len(LowerChars) : LowerChars[i] = c]
    ELSE c

\* str.lower()
lower(s) == [i \in 1..Len(s) |-> LowerChar(s[i])]

\* str.upper()
upper(s) == [i \in 1..Len(s) |-> UpperChar(s[i])]

\* str.strip(): drop the leading and the trailing whitespace
strip(s) ==
    LET keep == {i \in 1..Len(s) : s[i] \notin Whitespace}
    IN  IF keep = {} THEN EMPTY
        ELSE SubSeq(s, CHOOSE i \in keep : \A j \in keep : i <= j,
                       CHOOSE i \in keep : \A j \in keep : i >= j)

\* k in t (substring test)
Contains(t, k) ==
    \E i \in 1..(Len(t) - Len(k) + 1) : SubSeq(t, i, i + Len(k) - 1) = k

KW_ROOFTOP_BAR == <<"r", "o", "o", "f", "t", "o", "p", " ", "b", "a", "r">>
KW_BAR == <<"b", "a", "r">>
KW_RESTAURANT == <<"r", "e", "s", "t", "a", "u", "r", "a", "n", "t">>
KW_FOOD == <<"f", "o", "o", "d">>
KW_LUNCH == <<"l", "u", "n", "c", "h">>
KW_SAV == <<"s", "a", "v">>

(***************************************************************************)
(* classify                                                                *)
(***************************************************************************)
CATEGORIES == {"restaurant", "bar", "rooftop", "other"}

\* a slip: the text is trimmed but its case is kept
classify_keeps_case(s) ==
    LET t == strip(s)
    IN  IF t = KW_ROOFTOP_BAR THEN "rooftop"
        ELSE IF Contains(t, KW_BAR) THEN "bar"
        ELSE IF t \in {KW_RESTAURANT, KW_LUNCH} THEN "restaurant"
        ELSE "other"

\* a slip: the combined labels ("Bar + Restaurant") fall through to "other"
classify_no_combo(s) ==
    LET t == lower(strip(s))
    IN  IF t = KW_ROOFTOP_BAR THEN "rooftop"
        ELSE IF /\ Contains(t, KW_BAR)
                /\ ~Contains(t, KW_RESTAURANT)
                /\ ~Contains(t, KW_FOOD) THEN "bar"
        ELSE IF t \in {KW_RESTAURANT, KW_LUNCH} THEN "restaurant"
        ELSE "other"

classify(s) ==
    LET t == lower(strip(s))
    IN  IF t = KW_ROOFTOP_BAR THEN "rooftop"
        ELSE IF /\ Contains(t, KW_BAR)
                /\ ~Contains(t, KW_RESTAURANT)
                /\ ~Contains(t, KW_FOOD) THEN "bar"
        ELSE IF t \in {KW_RESTAURANT, KW_LUNCH} THEN "restaurant"
        ELSE IF /\ Contains(t, KW_BAR)
                /\ (Contains(t, KW_RESTAURANT) \/ Contains(t, KW_FOOD)) THEN "bar"
        ELSE IF t = KW_RESTAURANT THEN "restaurant"
        ELSE "other"

(***************************************************************************)
(* The classifier on its own: an argument put together from fragments, the *)
(* call, and a second call on a variant of the argument.                   *)
(***************************************************************************)
Fragments ==
    { <<" ">>, <<"\t">>, <<"b">>, <<"a", "r">>, <<"B", "A", "R">>, <<"+">>,
      <<"R", "o", "o", "f", "t", "o", "p", " ">>,
      <<"R", "e", "s", "t", "a", "u", "r", "a", "n", "t">>,
      <<"l", "u", "n", "c", "h">>,
      <<"F", "o", "o", "d">> }

RECURSIVE Texts(_)
Texts(n) ==
    IF n = 0 THEN {EMPTY}
    ELSE LET shorter == Texts(n - 1)
         IN  shorter \cup {t \o f : t \in shorter, f \in Fragments}

\* s with the case of its i-th character swapped
SwapCaseAt(s, i) ==
    [s EXCEPT ![i] = IF LowerChar(s[i]) # s[i] THEN LowerChar(s[i]) ELSE UpperChar(s[i])]

CaseVariants(s) ==
    {lower(s), upper(s)} \cup {SwapCaseAt(s, i) : i \in 1..Len(s)}

WhitespaceVariants(s) ==
    {strip(s)} \cup {<<w>> \o s : w \in Whitespace} \cup {s \o <<w>> : w \in Whitespace}
        \cup (IF s # EMPTY /\ s[1] \in Whitespace THEN {Tail(s)} ELSE {})
        \cup (IF s # EMPTY /\ s[Len(s)] \in Whitespace
              THEN {SubSeq(s, 1, Len(s) - 1)} ELSE {})

ClassifyCall ==
    /\ cpc = "input"
    /\ category' = classify(type_str)
    /\ cpc' = "classified"
    /\ UNCHANGED <<type_str, pvars>>

ClassifyCaseVariant ==
    /\ cpc = "classified"
    /\ \E v \in CaseVariants(type_str) :
        /\ type_str' = v
        /\ category' = classify(v)
    /\ cpc' = "reclassified"
    /\ UNCHANGED pvars

ClassifyWhitespaceVariant ==
    /\ cpc = "classified"
    /\ \E v \in WhitespaceVariants(type_str) :
        /\ type_str' = v
        /\ category' = classify(v)
    /\ cpc' = "reclassified"
    /\ UNCHANGED pvars

(***************************************************************************)
(* The sheet: rows of text cells at fixed column positions                 *)
(***************************************************************************)
COL_NAME == 0
COL_LOCATION == 1
COL_TYPE == 2
COL_SUMMARY == 4
COL_ADDRESS == 14

LocSavannah == <<"S", "a", "v", "a", "n", "n", "a", "h", ",", " ", "G", "A">>
LocAtlanta == <<"A", "t", "l", "a", "n", "t", "a", ",", " ", "G", "A">>
LocUpper == <<"S", "A", "V">>
TypeRooftop == <<"R", "o", "o", "f", "t", "o", "p", " ", "B", "a", "r">>
TypeCombo == <<"B", "a", "r", " ", "+", " ", "R", "e", "s", "t", "a", "u", "r", "a", "n", "t">>
TypeRestaurant == <<"R", "e", "s", "t", "a", "u", "r", "a", "n", "t">>
TypeBar == <<"B", "a", "r">>
NamePier == <<"P", "i", "e", "r", " ", "1">>
NameJoes == <<"J", "o", "e", "'", "s">>
NameAlley == <<"A", "l", "l", "e", "y">>
NameDive == <<"D", "i", "v", "e">>
Addr1 == <<"1", " ", "B", "a", "y", " ", "S", "t">>
Addr2 == <<"2", " ", "B", "a", "y", " ", "S", "t">>
Addr3 == <<"3", " ", "M", "a", "i", "n", " ", "S", "t">>

\* a row filled up to column O
MkRow(name, location, rtype, summary, address) ==
    <<name, location, rtype, EMPTY, summary, EMPTY, EMPTY, EMPTY, EMPTY, EMPTY,
      EMPTY, EMPTY, EMPTY, EMPTY, address>>

RowPier == MkRow(NamePier, LocSavannah, TypeRooftop, <<"o", "k">>, Addr1)
RowAlley == MkRow(NameAlley, LocUpper, TypeCombo, EMPTY, Addr1)
RowDive == MkRow(NameDive, LocSavannah, TypeBar, EMPTY, Addr2)
RowNoName == MkRow(EMPTY, LocSavannah, TypeBar, EMPTY, Addr2)
RowAtlanta == MkRow(NameJoes, LocAtlanta, TypeRestaurant, EMPTY, Addr3)
\* a row that ends before the address column
RowShort == <<NamePier, LocSavannah, TypeRooftop>>

RowSet == {RowPier, RowAlley, RowDive, RowNoName, RowAtlanta, RowShort}

\* the rows of the sheets the whole run is followed on
RunRowSet == {RowPier, RowAlley, RowDive, RowNoName}

RECURSIVE SeqsUpTo(_, _)
SeqsUpTo(S, n) ==
    IF n = 0 THEN {<< >>}
    ELSE LET shorter == SeqsUpTo(S, n - 1)
         IN  shorter \cup {Append(q, x) : q \in shorter, x \in S}

\* the url of the =IMAGE() formula in data row i
ImgUrl(i) == <<"i", "m", "g", ToString(i)>>

\* what get_image_formulas can return for n data rows: a url for some of the rows
ImageMaps(n) == {[i \in S |-> ImgUrl(i)] : S \in SUBSET (0..(n - 1))}

\* the sheets fetch_sheet_data is tried on: up to MaxRows rows, any image formulas
Sheets ==
    UNION {{[rows |-> r, imgs |-> m] : m \in ImageMaps(Len(r))} :
              r \in SeqsUpTo(RowSet, MaxRows)}

\* the sheets the whole run is followed on: no image formula, or one in every row
RunSheets ==
    UNION {{[rows |-> r, imgs |-> m] :
               m \in {n \in ImageMaps(Len(r)) : DOMAIN n \in {{}, 0..(Len(r) - 1)}}} :
              r \in SeqsUpTo(RunRowSet, MaxRows)}

(***************************************************************************)
(* fetch_sheet_data                                                        *)
(***************************************************************************)
\* row[col] if len(row) > col else ""
Cell(row, col) == IF Len(row) > col THEN row[col + 1] ELSE EMPTY

\* the two tests that let a row through
RowKept(row) ==
    /\ Contains(lower(Cell(row, COL_LOCATION)), KW_SAV)
    /\ Cell(row, COL_NAME) # EMPTY
    /\ Cell(row, COL_ADDRESS) # EMPTY

\* a slip: the photo is looked up by the position among the kept rows
PhotoKey_among_kept(i, kept) == kept

\* the key of the photo lookup for data row i, with `kept` rows appended so far
PhotoKey(i, kept) == i

\* image_urls.get(k, "")
DictGet(d, k) == IF k \in DOMAIN d THEN d[k] ELSE EMPTY

\* the dict appended for a kept row; lat and lng are not set yet
Listing(row, photo) ==
    [name |-> Cell(row, COL_NAME),
     type |-> Cell(row, COL_TYPE),
     category |-> classify(Cell(row, COL_TYPE)),
     summary |-> Cell(row, COL_SUMMARY),
     address |-> Cell(row, COL_ADDRESS),
     photo_url |-> photo,
     lat |-> "absent",
     lng |-> "absent"]

\* the for loop over enumerate(data_rows), from index i on
RECURSIVE FetchLoop(_, _, _, _)
FetchLoop(rows, imgs, i, acc) ==
    IF i >= Len(rows) THEN acc
    ELSE LET row == rows[i + 1]
         IN  IF RowKept(row)
             THEN FetchLoop(rows, imgs, i + 1,
                      Append(acc, Listing(row, DictGet(imgs, PhotoKey(i, Len(acc))))))
             ELSE FetchLoop(rows, imgs, i + 1, acc)

(***************************************************************************)
(* The geocode cache and its file                                          *)
(***************************************************************************)
\* what geolocator.geocode can answer with: a latitude and a longitude
GeoPoints == {[lat |-> "32.08", lng |-> "-81.09"], [lat |-> "0.0", lng |-> "0.0"]}

EmptyCache == [a \in {} |-> [lat |-> "", lng |-> ""]]

NoFile == [exists |-> FALSE, entries |-> {}]

\* a slip: latitude and longitude change places in the file
JsonDump_swaps(c) ==
    [exists |-> TRUE, entries |-> {<<a, c[a].lng, c[a].lat>> : a \in DOMAIN c}]

\* json.dump(cache, f): one "address": {"lat": .., "lng": ..} member per key
JsonDump(c) == [exists |-> TRUE, entries |-> {<<a, c[a].lat, c[a].lng>> : a \in DOMAIN c}]

\* json.load(f): the dict of the members
JsonLoad(file) ==
    [a \in {e[1] : e \in file.entries} |->
        LET e == CHOOSE e \in file.entries : e[1] = a
        IN  [lat |-> e[2], lng |-> e[3]]]

\* a slip: the new entry is never stored
CachePut_forgets(c, addr, p) == c

\* a slip: the dict is rebuilt with the new entry alone
CachePut_drops_rest(c, addr, p) == [a \in {addr} |-> [lat |-> p.lat, lng |-> p.lng]]

\* cache[addr] = {"lat": .., "lng": ..}
CachePut(c, addr, p) ==
    [a \in DOMAIN c \cup {addr} |-> IF a = addr THEN [lat |-> p.lat, lng |-> p.lng] ELSE c[a]]

\* r.get("lat") is not None
HasLat(r) == r.lat \notin {"None", "absent"}

\* a slip: nothing is dropped
FilterResolved_keeps_all(rs) == rs

\* a slip: the kept Listings come out last first
FilterResolved_reversed(rs) ==
    LET kept == SelectSeq(rs, HasLat)
    IN  [i \in 1..Len(kept) |-> kept[Len(kept) + 1 - i]]

\* the list comprehension that drops the Listings without coordinates
FilterResolved(rs) == SelectSeq(rs, HasLat)

(***************************************************************************)
(* generate_kml: the folders                                               *)
(***************************************************************************)
FolderOrder == <<"restaurant", "bar", "rooftop", "other">>

\* by_cat.setdefault(r["category"], []).append(r), for every r in order
RECURSIVE GroupByCat(_, _, _)
GroupByCat(rs, i, by_cat) ==
    IF i > Len(rs) THEN by_cat
    ELSE GroupByCat(rs, i + 1,
             [by_cat EXCEPT ![rs[i].category] = Append(@, rs[i])])

\* one folder per category that has items, in the fixed order
RECURSIVE FoldersFrom(_, _)
FoldersFrom(by_cat, k) ==
    IF k > Len(FolderOrder) THEN << >>
    ELSE LET items == by_cat[FolderOrder[k]]
         IN  (IF items = << >> THEN << >>
              ELSE <<[category |-> FolderOrder[k], placemarks |-> items]>>)
             \o FoldersFrom(by_cat, k + 1)

KmlFolders(rs) == FoldersFrom(GroupByCat(rs, 1, [c \in CATEGORIES |-> << >>]), 1)

(***************************************************************************)
(* main(): fetch_sheet_data, geocode_restaurants, generate_html,           *)
(* generate_kml; then the next run of the script                           *)
(***************************************************************************)
\* the position of the for loop, and the Listing it is at
InLoop == pc = "geocode_loop" /\ idx <= Len(restaurants)
CurAddr == restaurants[idx].address

SetCoords(rs, i, la, ln) == [rs EXCEPT ![i].lat = la, ![i].lng = ln]

\* one geocode(addr) call: the Listing it was issued for and what came back
CallEntry(addr, outcome, la, ln) ==
    [listing |-> idx, addr |-> addr, outcome |-> outcome, lat |-> la, lng |-> ln]

\* fetch_sheet_data returns the Listings of the rows it keeps
FetchSheetData ==
    /\ pc = "fetch_sheet_data"
    /\ restaurants' = FetchLoop(data_rows, image_urls, 0, << >>)
    /\ pc' = "geocode_load"
    /\ UNCHANGED <<data_rows, image_urls, cache, cache_file, idx, calls, html_markers,
                   kml_folders, prev_resolved, prev_unresolved, cvars>>

\* get_credentials raises, or the sheet cannot be read: the run ends here
FetchSheetDataFails ==
    /\ pc = "fetch_sheet_data"
    /\ pc' = "fetch_failed"
    /\ UNCHANGED <<data_rows, image_urls, restaurants, cache, cache_file, idx, calls,
                   html_markers, kml_folders, prev_resolved, prev_unresolved, cvars>>

\* cache = {}; if os.path.exists(cache_path): cache = json.load(f)
LoadCache ==
    /\ pc = "geocode_load"
    /\ cache' = IF cache_file.exists THEN JsonLoad(cache_file) ELSE EmptyCache
    /\ idx' = 1
    /\ pc' = "geocode_loop"
    /\ UNCHANGED <<data_rows, image_urls, restaurants, cache_file, calls,
                   html_markers, kml_folders, prev_resolved, prev_unresolved, cvars>>

\* if addr in cache: take the coordinates from it; continue
CacheHit ==
    /\ InLoop
    /\ CurAddr \in DOMAIN cache
    /\ restaurants' = SetCoords(restaurants, idx, cache[CurAddr].lat, cache[CurAddr].lng)
    /\ idx' = idx + 1
    /\ UNCHANGED <<pc, data_rows, image_urls, cache, cache_file, calls,
                   html_markers, kml_folders, prev_resolved, prev_unresolved, cvars>>

\* loc = geocode(addr) answers with a location
GeocodeFound ==
    /\ InLoop
    /\ CurAddr \notin DOMAIN cache
    /\ \E p \in GeoPoints :
        /\ restaurants' = SetCoords(restaurants, idx, p.lat, p.lng)
        /\ cache' = CachePut(cache, CurAddr, p)
        /\ calls' = Append(calls, CallEntry(CurAddr, "found", p.lat, p.lng))
    /\ idx' = idx + 1
    /\ UNCHANGED <<pc, data_rows, image_urls, cache_file,
                   html_markers, kml_folders, prev_resolved, prev_unresolved, cvars>>

\* a slip: the failed lookup is stored in the cache
GeocodeNone_caches ==
    /\ InLoop
    /\ CurAddr \notin DOMAIN cache
    /\ restaurants' = SetCoords(restaurants, idx, "None", "None")
    /\ cache' = CachePut(cache, CurAddr, [lat |-> "None", lng |-> "None"])
    /\ calls' = Append(calls, CallEntry(CurAddr, "none", "None", "None"))
    /\ idx' = idx + 1
    /\ UNCHANGED <<pc, data_rows, image_urls, cache_file,
                   html_markers, kml_folders, prev_resolved, prev_unresolved, cvars>>

\* loc = geocode(addr) answers None
GeocodeNone ==
    /\ InLoop
    /\ CurAddr \notin DOMAIN cache
    /\ restaurants' = SetCoords(restaurants, idx, "None", "None")
    /\ calls' = Append(calls, CallEntry(CurAddr, "none", "None", "None"))
    /\ idx' = idx + 1
    /\ UNCHANGED <<pc, data_rows, image_urls, cache, cache_file,
                   html_markers, kml_folders, prev_resolved, prev_unresolved, cvars>>

\* a slip: the exception of geocode(addr) is not caught and ends the run
GeocodeError_aborts ==
    /\ InLoop
    /\ CurAddr \notin DOMAIN cache
    /\ calls' = Append(calls, CallEntry(CurAddr, "error", "None", "None"))
    /\ pc' = "aborted"
    /\ UNCHANGED <<data_rows, image_urls, restaurants, cache, cache_file, idx,
                   html_markers, kml_folders, prev_resolved, prev_unresolved, cvars>>

\* geocode(addr) raises; except Exception
GeocodeError ==
    /\ InLoop
    /\ CurAddr \notin DOMAIN cache
    /\ restaurants' = SetCoords(restaurants, idx, "None", "None")
    /\ calls' = Append(calls, CallEntry(CurAddr, "error", "None", "None"))
    /\ idx' = idx + 1
    /\ UNCHANGED <<pc, data_rows, image_urls, cache, cache_file,
                   html_markers, kml_folders, prev_resolved, prev_unresolved, cvars>>

\* a slip: the function goes on to the filter without writing the file
SaveCache_skipped ==
    /\ pc = "geocode_loop"
    /\ idx > Len(restaurants)
    /\ pc' = "geocode_filter"
    /\ UNCHANGED <<data_rows, image_urls, restaurants, cache, cache_file, idx, calls,
                   html_markers, kml_folders, prev_resolved, prev_unresolved, cvars>>

\* after the loop: json.dump(cache, f)
SaveCache ==
    /\ pc = "geocode_loop"
    /\ idx > Len(restaurants)
    /\ cache_file' = JsonDump(cache)
    /\ pc' = "geocode_filter"
    /\ UNCHANGED <<data_rows, image_urls, restaurants, cache, idx, calls,
                   html_markers, kml_folders, prev_resolved, prev_unresolved, cvars>>

\* restaurants = [r for r in restaurants if r.get("lat") is not None]; return
DropUnresolved ==
    /\ pc = "geocode_filter"
    /\ restaurants' = FilterResolved(restaurants)
    /\ pc' = "generate_html"
    /\ UNCHANGED <<data_rows, image_urls, cache, cache_file, idx, calls,
                   html_markers, kml_folders, prev_resolved, prev_unresolved, cvars>>

\* generate_html(restaurants): markers_js = json.dumps(restaurants), written out
GenerateHtml ==
    /\ pc = "generate_html"
    /\ html_markers' = [written |-> TRUE, markers |-> restaurants]
    /\ pc' = "generate_kml"
    /\ UNCHANGED <<data_rows, image_urls, restaurants, cache, cache_file, idx, calls,
                   kml_folders, prev_resolved, prev_unresolved, cvars>>

\* open(out_path, "w") or f.write raises in generate_html
GenerateHtmlFails ==
    /\ pc = "generate_html"
    /\ pc' = "aborted"
    /\ UNCHANGED <<data_rows, image_urls, restaurants, cache, cache_file, idx, calls,
                   html_markers, kml_folders, prev_resolved, prev_unresolved, cvars>>

\* generate_kml(restaurants)
GenerateKml ==
    /\ pc = "generate_kml"
    /\ kml_folders' = [written |-> TRUE, folders |-> KmlFolders(restaurants)]
    /\ pc' = "done"
    /\ UNCHANGED <<data_rows, image_urls, restaurants, cache, cache_file, idx, calls,
                   html_markers, prev_resolved, prev_unresolved, cvars>>

\* open(out_path, "w") or f.write raises in generate_kml
GenerateKmlFails ==
    /\ pc = "generate_kml"
    /\ pc' = "aborted"
    /\ UNCHANGED <<data_rows, image_urls, restaurants, cache, cache_file, idx, calls,
                   html_markers, kml_folders, prev_resolved, prev_unresolved, cvars>>

Unwritten == [written |-> FALSE]

\* the address/lat/lng triples of the Listings that have coordinates
Resolved(rs) ==
    {<<rs[i].address, rs[i].lat, rs[i].lng>> : i \in {j \in 1..Len(rs) : HasLat(rs[j])}}

\* the addresses of the calls that failed and that no later call resolved
Unresolved(log, c) ==
    {log[i].addr : i \in {j \in 1..Len(log) : log[j].outcome # "found"}} \ DOMAIN c

\* main() returns, or the exception ends the process: nothing but
\* geocode_cache.json outlives it
ProcessExit ==
    /\ pc \in {"done", "aborted", "fetch_failed"}
    /\ prev_resolved' = IF pc = "fetch_failed" THEN prev_resolved ELSE Resolved(restaurants)
    /\ prev_unresolved' = IF pc = "fetch_failed" THEN prev_unresolved
                          ELSE Unresolved(calls, cache)
    /\ pc' = "exited"
    /\ data_rows' = << >>
    /\ image_urls' = << >>
    /\ restaurants' = << >>
    /\ cache' = EmptyCache
    /\ idx' = 1
    /\ calls' = << >>
    /\ html_markers' = Unwritten
    /\ kml_folders' = Unwritten
    /\ UNCHANGED <<cache_file, cvars>>

\* the script is started again, on the sheet as it then is
StartNextRun ==
    /\ pc = "exited"
    /\ \E sheet \in RunSheets :
        /\ data_rows' = sheet.rows
        /\ image_urls' = sheet.imgs
    /\ pc' = "fetch_sheet_data"
    /\ UNCHANGED <<restaurants, cache, cache_file, idx, calls, html_markers,
                   kml_folders, prev_resolved, prev_unresolved, cvars>>

\* everything but the sheet, before the first run
InitRest ==
    /\ restaurants = << >>
    /\ cache = EmptyCache
    /\ cache_file = NoFile
    /\ idx = 1
    /\ calls = << >>
    /\ html_markers = Unwritten
    /\ kml_folders = Unwritten
    /\ prev_resolved = {}
    /\ prev_unresolved = {}

Init ==
    /\ pc = "fetch_sheet_data"
    /\ \E sheet \in RunSheets :
        /\ data_rows = sheet.rows
        /\ image_urls = sheet.imgs
    /\ InitRest
    /\ type_str = EMPTY
    /\ category = "none"
    /\ cpc = "idle"

Next ==
    \/ FetchSheetData
    \/ FetchSheetDataFails
    \/ LoadCache
    \/ CacheHit
    \/ GeocodeFound
    \/ GeocodeNone
    \/ GeocodeError
    \/ SaveCache
    \/ DropUnresolved
    \/ GenerateHtml
    \/ GenerateHtmlFails
    \/ GenerateKml
    \/ GenerateKmlFails
    \/ ProcessExit
    \/ StartNextRun

Spec == Init /\ [][Next]_vars

\* the statements of geocode_restaurants
GeocodeRestaurants ==
    \/ LoadCache
    \/ CacheHit
    \/ GeocodeFound
    \/ GeocodeNone
    \/ GeocodeError
    \/ SaveCache
    \/ DropUnresolved

\* geocode_restaurants runs in one thread and waits for nothing but the
\* geocoder's answer and the rate limiter's sleep, which both come back: once
\* called, its next statement is executed
FairSpec == Spec /\ WF_vars(GeocodeRestaurants)

(***************************************************************************)
(* classify called on its own                                              *)
(***************************************************************************)
ClassifyInit ==
    /\ type_str \in Texts(MaxFrags)
    /\ category = "none"
    /\ cpc = "input"
    /\ pc = "idle"
    /\ data_rows = << >>
    /\ image_urls = << >>
    /\ InitRest

ClassifyNext ==
    \/ ClassifyCall
    \/ ClassifyCaseVariant
    \/ ClassifyWhitespaceVariant

ClassifySpec == ClassifyInit /\ [][ClassifyNext]_vars

(***************************************************************************)
(* fetch_sheet_data called on its own, on any sheet                        *)
(***************************************************************************)
FetchInit ==
    /\ pc = "fetch_sheet_data"
    /\ \E sheet \in Sheets :
        /\ data_rows = sheet.rows
        /\ image_urls = sheet.imgs
    /\ InitRest
    /\ type_str = EMPTY
    /\ category = "none"
    /\ cpc = "idle"

FetchSpec == FetchInit /\ [][FetchSheetData]_vars

(***************************************************************************)
(* Properties of classify (ClassifySpec)                                   *)
(***************************************************************************)
\* C1: classify returns one of restaurant, bar, rooftop, other for every text,
\* and the result of a second call on the text with its letter case changed,
\* or with leading/trailing whitespace added or removed, is the first result.
C1_TotalCaseWhitespaceInsensitive ==
    /\ [](cpc \in {"classified", "reclassified"} => category \in CATEGORIES)
    /\ [][cpc = "classified" => category' = category]_vars

\* a variant in upper case with whitespace around it was classified rooftop
C1_Witness ==
    /\ cpc = "reclassified"
    /\ category = "rooftop"
    /\ type_str # lower(type_str)
    /\ type_str # strip(type_str)

\* C2: on the trimmed, lower-cased text t: t = "rooftop bar" gives rooftop;
\* otherwise "bar" in t gives bar, also when "restaurant" or "food" is in t;
\* otherwise t = "restaurant" or t = "lunch" gives restaurant; every other
\* text, the empty one included, gives other.
C2_DecisionOrder ==
    category # "none" =>
        LET t == lower(strip(type_str))
        IN  category =
                IF t = KW_ROOFTOP_BAR THEN "rooftop"
                ELSE IF Contains(t, KW_BAR) THEN "bar"
                ELSE IF t = KW_RESTAURANT \/ t = KW_LUNCH THEN "restaurant"
                ELSE "other"

\* a text with both "bar" and "restaurant" in it was classified bar
C2_Witness ==
    /\ cpc = "classified"
    /\ Contains(lower(type_str), KW_BAR)
    /\ Contains(lower(type_str), KW_RESTAURANT)
    /\ category = "bar"

(***************************************************************************)
(* Properties of the geocode cache (Spec)                                  *)
(***************************************************************************)
\* the loop has been entered and the list is still the unfiltered one
InGeocode == pc \in {"geocode_loop", "geocode_filter"}

\* the Listings the loop is done with
Processed == 1..(idx - 1)

CallsFor(a) == {i \in 1..Len(calls) : calls[i].addr = a}

\* C3, as stated: in one run at most one external geocoder call is issued
\* for an address, however many Listings carry it.
C3_OneCallPerAddress ==
    \A i, j \in 1..Len(calls) : calls[i].addr = calls[j].addr => i = j

\* C3, amended: in one run at most one call per address is answered with a
\* location, and no call is issued for an address once it is in the cache
\* (loaded or resolved): a Listing that follows a Listing with the same
\* address and with coordinates issues no call and has the same coordinates.
C3_OneCallPerResolvedAddress ==
    InGeocode =>
        /\ \A i, j \in 1..Len(calls) :
               (calls[i].addr = calls[j].addr /\ calls[i].outcome = "found" /\ i <= j)
                   => i = j
        /\ \A k \in Processed : \A j \in 1..(k - 1) :
               (restaurants[j].address = restaurants[k].address
                    /\ restaurants[j].lat # "None")
                   => /\ restaurants[k].lat = restaurants[j].lat
                      /\ restaurants[k].lng = restaurants[j].lng
                      /\ \A i \in 1..Len(calls) : calls[i].listing # k

\* two Listings with one address, resolved with a single call
C3_Witness ==
    /\ pc = "geocode_filter"
    /\ Len(restaurants) = 2
    /\ restaurants[1].address = restaurants[2].address
    /\ restaurants[2].lat = "32.08"
    /\ Len(calls) = 1
    /\ calls[1].outcome = "found"

\* C4: every Listing whose address the last run that saved the cache had
\* resolved gets the coordinates of that run, and no external call is issued
\* for such an address.
C4_RoundTripAcrossRuns ==
    InGeocode =>
        \A t \in prev_resolved :
            /\ CallsFor(t[1]) = {}
            /\ \A k \in Processed :
                   restaurants[k].address = t[1]
                       => restaurants[k].lat = t[2] /\ restaurants[k].lng = t[3]

\* a Listing got the coordinates the run before it had resolved, without a call
C4_Witness ==
    /\ pc = "geocode_filter"
    /\ calls = << >>
    /\ \E k \in 1..Len(restaurants) :
           <<restaurants[k].address, "32.08", "-81.09">> \in prev_resolved
               /\ restaurants[k].lat = "32.08"

\* the step of the loop that ends with a failed lookup (None or an exception)
FailedLookupStep ==
    /\ Len(calls') = Len(calls) + 1
    /\ calls'[Len(calls')].outcome # "found"

\* C7: a failed lookup (None or an exception) leaves the cache and its file
\* as they are and moves on to the next Listing; no Listing is looked up
\* twice; an address the run called the geocoder for and did not resolve is
\* not in the saved cache; and the next run issues a call for the first of
\* its Listings that has such an address.
C7_FailedLookupNotCached ==
    /\ [][FailedLookupStep =>
              /\ cache' = cache
              /\ cache_file' = cache_file
              /\ idx' = idx + 1
              /\ restaurants'[idx].lat = "None"
              /\ pc' = "geocode_loop"]_vars
    /\ [](\A i, j \in 1..Len(calls) : calls[i].listing = calls[j].listing => i = j)
    /\ [](pc = "geocode_filter" =>
              \A a \in Unresolved(calls, cache) :
                  \A e \in cache_file.entries : e[1] # a)
    /\ [](InGeocode =>
              \A k \in Processed :
                  restaurants[k].address \in prev_unresolved
                      => \/ \E i \in 1..Len(calls) :
                                calls[i].listing = k /\ calls[i].addr = restaurants[k].address
                         \/ \E j \in 1..(k - 1) :
                                /\ restaurants[j].address = restaurants[k].address
                                /\ restaurants[j].lat # "None")

\* an address the last run left unresolved was looked up again, and failed again
C7_Witness ==
    /\ pc = "geocode_filter"
    /\ Len(calls) = 1
    /\ calls[1].outcome = "error"
    /\ calls[1].addr \in prev_unresolved
    /\ cache_file.exists
    /\ \A e \in cache_file.entries : e[1] # calls[1].addr

FoundCalls == {i \in 1..Len(calls) : calls[i].outcome = "found"}

\* C10: the step that saves the cache writes the entries of the file the run
\* loaded (none if there was no file) and one entry per call answered with a
\* location, with the coordinates of the answer; the entries that were there
\* stay as they were, and every entry of the file holds coordinates the
\* geocoder has answered with.
C10_SavedCacheIsLoadedPlusResolved ==
    /\ [][(pc = "geocode_loop" /\ pc' = "geocode_filter") =>
              /\ cache_file'.exists
              /\ cache_file'.entries =
                     cache_file.entries
                         \cup {<<calls[i].addr, calls[i].lat, calls[i].lng>> : i \in FoundCalls}
              /\ Cardinality(cache_file'.entries) =
                     Cardinality(cache_file.entries) + Cardinality(FoundCalls)
              /\ Cardinality({e[1] : e \in cache_file'.entries}) =
                     Cardinality(cache_file'.entries)]_vars
    /\ [](\A e \in cache_file.entries : [lat |-> e[2], lng |-> e[3]] \in GeoPoints)

\* a file with an entry from an earlier run and an entry resolved in this run
C10_Witness ==
    /\ pc = "geocode_filter"
    /\ Cardinality(cache_file.entries) = 2
    /\ Cardinality(FoundCalls) = 1
    /\ \E e \in prev_resolved : e \in cache_file.entries /\ e[1] # calls[1].addr

(***************************************************************************)
(* Properties of the Listings handed on (Spec, FairSpec, FetchSpec)        *)
(***************************************************************************)
\* a Listing as the writers must find it
Complete(r) ==
    /\ r.lat \notin {"None", "absent"}
    /\ r.lng \notin {"None", "absent"}
    /\ r.name # EMPTY
    /\ r.address # EMPTY
    /\ r.category = classify(r.type)

\* C5: every Listing generate_html and generate_kml are given has a latitude
\* and a longitude, a name and an address that are not empty, and the
\* category classify gives its type text.
C5_EmittedListingsComplete ==
    /\ pc \in {"generate_html", "generate_kml"} =>
           \A k \in 1..Len(restaurants) : Complete(restaurants[k])
    /\ html_markers.written =>
           \A k \in 1..Len(html_markers.markers) : Complete(html_markers.markers[k])
    /\ kml_folders.written =>
           \A f \in 1..Len(kml_folders.folders) :
               \A k \in 1..Len(kml_folders.folders[f].placemarks) :
                   Complete(kml_folders.folders[f].placemarks[k])

\* both files were written in a run in which a lookup failed and one succeeded
C5_Witness ==
    /\ pc = "done"
    /\ html_markers.written /\ html_markers.markers # << >>
    /\ kml_folders.written /\ kml_folders.folders # << >>
    /\ \E i \in 1..Len(calls) : calls[i].outcome # "found"
    /\ Len(data_rows) > Len(restaurants)

\* C6: a lookup that fails (None or an exception) marks its Listing
\* unresolved and the loop goes on with the next one; when the loop is left
\* every Listing has been processed; and geocode_restaurants, once it has
\* loaded the cache, gets to saving it, to the filter, and returns.
C6_FailureNeverAborts ==
    /\ [][FailedLookupStep =>
              /\ pc' = "geocode_loop"
              /\ idx' = idx + 1
              /\ restaurants'[idx].lat = "None"
              /\ restaurants'[idx].lng = "None"]_vars
    /\ [](pc = "geocode_filter" =>
              /\ idx = Len(restaurants) + 1
              /\ \A k \in 1..Len(restaurants) : restaurants[k].lat # "absent")
    /\ (pc = "geocode_load") ~> (pc = "geocode_filter")
    /\ (pc = "geocode_filter") ~> (pc = "generate_html")

\* the first lookup raised, the Listing after it was still resolved and returned
C6_Witness ==
    /\ pc = "generate_html"
    /\ Len(calls) = 2
    /\ calls[1].outcome = "error"
    /\ calls[2].outcome = "found"
    /\ Len(restaurants) = 1

\* the strictly increasing maps from 1..m into lo..hi
IncreasingMaps(m, lo, hi) ==
    {f \in [1..m -> lo..hi] : \A i, j \in 1..m : i < j => f[i] < f[j]}

\* Listing r was made from data row i (0-based) of the sheet
MadeFromRow(r, i) ==
    /\ i < Len(data_rows)
    /\ LET row == data_rows[i + 1]
       IN  /\ Len(row) > COL_ADDRESS
           /\ r.name = row[COL_NAME + 1]
           /\ r.type = row[COL_TYPE + 1]
           /\ r.summary = row[COL_SUMMARY + 1]
           /\ r.address = row[COL_ADDRESS + 1]
    /\ r.photo_url = (IF i \in DOMAIN image_urls THEN image_urls[i] ELSE EMPTY)

\* rs is made from rows of the sheet, in the order of the sheet
InSheetOrder(rs) ==
    \E f \in IncreasingMaps(Len(rs), 0, Len(data_rows) - 1) :
        \A k \in 1..Len(rs) : MadeFromRow(rs[k], f[k])

\* ps is a subsequence of rs
Subsequence(ps, rs) ==
    \E f \in IncreasingMaps(Len(ps), 1, Len(rs)) :
        \A k \in 1..Len(ps) : ps[k] = rs[f[k]]

\* C8: the Listings, before and after the Listings without coordinates are
\* dropped and as handed to generate_html, come from rows of the sheet in the
\* order of the sheet; and the placemarks of every KML folder are the
\* Listings of its category in the order of the list.
C8_OrderPreserved ==
    /\ InSheetOrder(restaurants)
    /\ html_markers.written => InSheetOrder(html_markers.markers)
    /\ kml_folders.written =>
           \A f \in 1..Len(kml_folders.folders) :
               LET folder == kml_folders.folders[f]
               IN  /\ Subsequence(folder.placemarks, restaurants)
                   /\ \A k \in 1..Len(folder.placemarks) :
                          folder.placemarks[k].category = folder.category
                   /\ Len(folder.placemarks) =
                          Cardinality({k \in 1..Len(restaurants) :
                                          restaurants[k].category = folder.category})

\* two different Listings of one category were written into one folder
C8_Witness ==
    /\ pc = "done"
    /\ Len(restaurants) = 2
    /\ restaurants[1] # restaurants[2]
    /\ Len(kml_folders.folders) = 1
    /\ kml_folders.folders[1].placemarks = restaurants

\* the field of a row, empty when the row has no such column
Field(row, col) == IF col + 1 \in DOMAIN row THEN row[col + 1] ELSE EMPTY

\* the 0-based positions of the rows that are to become Listings
WantedRows ==
    {i \in 0..(Len(data_rows) - 1) :
        LET row == data_rows[i + 1]
        IN  /\ \E a \in 1..Len(Field(row, COL_LOCATION)) :
                   /\ a + 2 <= Len(Field(row, COL_LOCATION))
                   /\ LowerChar(Field(row, COL_LOCATION)[a]) = "s"
                   /\ LowerChar(Field(row, COL_LOCATION)[a + 1]) = "a"
                   /\ LowerChar(Field(row, COL_LOCATION)[a + 2]) = "v"
            /\ Field(row, COL_NAME) # EMPTY
            /\ Field(row, COL_ADDRESS) # EMPTY}

\* C9: fetch_sheet_data returns one Listing for each data row whose location
\* has "sav" in it in any letter case and whose name and address are not
\* empty, a missing column counting as empty, and for no other row; the
\* Listings are in the order of the rows, and the photo of each is the url
\* kept under the row's position among all data rows ("" if there is none).
C9_RowFilter ==
    pc = "geocode_load" =>
        /\ Len(restaurants) = Cardinality(WantedRows)
        /\ \E f \in IncreasingMaps(Len(restaurants), 0, Len(data_rows) - 1) :
               \A k \in 1..Len(restaurants) :
                   /\ f[k] \in WantedRows
                   /\ restaurants[k].name = Field(data_rows[f[k] + 1], COL_NAME)
                   /\ restaurants[k].type = Field(data_rows[f[k] + 1], COL_TYPE)
                   /\ restaurants[k].summary = Field(data_rows[f[k] + 1], COL_SUMMARY)
                   /\ restaurants[k].address = Field(data_rows[f[k] + 1], COL_ADDRESS)
                   /\ restaurants[k].category = classify(restaurants[k].type)
                   /\ restaurants[k].photo_url =
                          (IF f[k] \in DOMAIN image_urls THEN image_urls[f[k]] ELSE EMPTY)

\* a row that ends before the address column was skipped, and the row after
\* it was kept with the photo of its own position
C9_Witness ==
    /\ pc = "geocode_load"
    /\ Len(data_rows) = 2
    /\ Len(data_rows[1]) <= COL_ADDRESS
    /\ Len(restaurants) = 1
    /\ restaurants[1].photo_url = ImgUrl(1)
    /\ 0 \in DOMAIN image_urls

(***************************************************************************)
(* Order of the steps of one run (Spec)                                    *)
(***************************************************************************)
\* the file holds every address this run has resolved, with its coordinates
FileHoldsResolved ==
    /\ cache_file.exists
    /\ \A i \in FoundCalls : <<calls[i].addr, calls[i].lat, calls[i].lng>> \in cache_file.entries
    /\ \A k \in 1..Len(restaurants) :
           restaurants[k].lat \notin {"None", "absent"}
               => <<restaurants[k].address, restaurants[k].lat, restaurants[k].lng>>
                      \in cache_file.entries

\* C11: the cache file is written only when the loop is over and every
\* Listing has been processed; Listings are dropped and the HTML and KML
\* outputs are written only after the whole cache has been saved; so when
\* writing an output fails, the file holds every address this run resolved.
C11_SaveBeforeFilterAndOutputs ==
    /\ [][cache_file' # cache_file =>
              /\ pc = "geocode_loop"
              /\ idx = Len(restaurants) + 1
              /\ \A k \in 1..Len(restaurants) : restaurants[k].lat # "absent"
              /\ ~html_markers.written /\ ~kml_folders.written
              /\ restaurants' = restaurants]_vars
    /\ [][(Len(restaurants') < Len(restaurants) /\ pc' # "exited") =>
              cache_file = JsonDump(cache) /\ cache_file' = cache_file]_vars
    /\ [][(html_markers'.written /\ ~html_markers.written) =>
              cache_file = JsonDump(cache) /\ FileHoldsResolved]_vars
    /\ [][(kml_folders'.written /\ ~kml_folders.written) =>
              cache_file = JsonDump(cache) /\ FileHoldsResolved]_vars
    /\ [](pc \in {"geocode_filter", "generate_html", "generate_kml", "done", "aborted"}
              => FileHoldsResolved)

\* writing the HTML failed in a run that had resolved an address by a call
C11_Witness ==
    /\ pc = "aborted"
    /\ ~html_markers.written
    /\ FoundCalls # {}
    /\ \E i \in 1..Len(calls) : calls[i].outcome # "found"
    /\ FileHoldsResolved

====
